---- MODULE Spec2Model ----
(***************************************************************************)
(* Model of the structop crate: Soft-DTW (src/src/soft_dtw.rs) and the     *)
(* soft shortest path on a DAG (src/src/soft_shortest_path.rs).            *)
(*                                                                         *)
(* NUMBERS.  The crate computes on f64.  The model computes on exact       *)
(* reals, and keeps every real it meets in a form that integer arithmetic  *)
(* can hold:                                                               *)
(*   - an input (an edge cost, a sequence element) is an integer;          *)
(*   - a valid gamma is 1/ln(b) for an integer base b >= 2, so that        *)
(*     exp(-c/gamma) = b^(-c) is rational for every integer cost c;        *)
(*   - a DP value a (a cost, +infinity included) is held as the rational   *)
(*     exp(-a/gamma), called its weight: +infinity is weight 0, 0.0 is     *)
(*     weight 1, a + c is the product of the weights, a <= b is            *)
(*     weight(a) >= weight(b);                                             *)
(*   - a log-space number x (the -a/gamma of the code) is held as exp(x),  *)
(*     which is the weight of a: -infinity is 0, x - m is a quotient,      *)
(*     exp(x - m) is that quotient, m + ln(s) is the product m * s.        *)
(* The softmin is computed step by step as the code computes it (maximum,  *)
(* shifted exponentials, sum, logarithm), on these representations.        *)
(* Rounding of f64 is not modelled: equalities below are equalities of     *)
(* real numbers.  The range of f64 is modelled in the path engine, whose   *)
(* is_finite tests decide what a call returns: see the section on it.      *)
(***************************************************************************)
EXTENDS Integers, Sequences, FiniteSets, TLC

VARIABLES pc, op, build, gamma, n, edges, dtw_n, dtw_m, x, y, cost, cost_xx, cost_yy,
          dp, fwd, bwd, r, result,
          phase, cur_i, cur_j, writes, sub

\* where a call stands inside its loops, when the loops are followed step by
\* step: the sub-call of a divergence, the loop indices, the table indices
\* written so far, and the values of the sub-calls that have returned
loopvars == <<phase, cur_i, cur_j, writes, sub>>

vars == <<pc, op, build, gamma, n, edges, dtw_n, dtw_m, x, y, cost, cost_xx, cost_yy,
          dp, fwd, bwd, r, result, phase, cur_i, cur_j, writes, sub>>

(***************************************************************************)
(* Bounds of the model.                                                    *)
(***************************************************************************)
MaxNodes == 4        \* SpecPath: node counts 2..MaxNodes
MaxEdges == 3        \* SpecPath: edge lists of up to MaxEdges edges, and two shapes of four
MaxCost == 2         \* SpecPath: edge costs 1..MaxCost, and +-1.0e308
MaxLen == 3          \* SpecDtw, SpecDiv: sequences of 1..MaxLen elements
MaxVal == 2          \* SpecDtw: elements 0..MaxVal
MaxDivVal == 1       \* SpecDiv: elements 0..MaxDivVal
MaxAnyNodes == 3     \* Spec: node counts and edge endpoints 0..MaxAnyNodes
MaxAnyEdges == 2     \* Spec: edge lists of up to MaxAnyEdges edges
MaxAnyLen == 2       \* Spec: sequences of 0..MaxAnyLen elements
MaxAnyVal == 1       \* Spec: sequence and buffer elements 0..MaxAnyVal
MaxBuf == 5          \* Spec: cost buffers of 0..MaxBuf elements
MaxDim == 3          \* Spec: n and m of soft_dtw_cost in 0..MaxDim, or 2^32
MaxFlatDim == 2      \* Spec: soft_dtw_divergence_cost buffers of a * b ones, a, b in 0..MaxFlatDim
MaxStepNodes == 3    \* SpecSteps: node counts and edge endpoints 0..MaxStepNodes
MaxStepEdges == 2    \* SpecSteps: edge lists of up to MaxStepEdges edges

(***************************************************************************)
(* Exact rationals num/den, den > 0, in lowest terms; all are >= 0 here.   *)
(***************************************************************************)
RECURSIVE GCD(_, _)
GCD(a, b) == IF b = 0 THEN a ELSE GCD(b, a % b)

RECURSIVE Pow(_, _)
Pow(b, k) == IF k = 0 THEN 1 ELSE b * Pow(b, k - 1)

Rat(a, b) == LET g == GCD(a, b) IN [num |-> a \div g, den |-> b \div g]

RZero == [num |-> 0, den |-> 1]
ROne == [num |-> 1, den |-> 1]

RatMul(a, b) ==
    IF a.num = 0 \/ b.num = 0 THEN RZero
    ELSE LET g1 == GCD(a.num, b.den)
             g2 == GCD(b.num, a.den)
         IN [num |-> (a.num \div g1) * (b.num \div g2),
             den |-> (a.den \div g2) * (b.den \div g1)]

RatInv(a) == [num |-> a.den, den |-> a.num]

RatDiv(a, b) == RatMul(a, RatInv(b))

RatAdd(a, b) ==
    LET g == GCD(a.den, b.den)
    IN Rat(a.num * (b.den \div g) + b.num * (a.den \div g), (a.den \div g) * b.den)

RatLt(a, b) == a.num * b.den < b.num * a.den

RatLe(a, b) == a.num * b.den <= b.num * a.den

RECURSIVE RatSum(_)
RatSum(s) == IF s = <<>> THEN RZero ELSE RatAdd(Head(s), RatSum(Tail(s)))

(***************************************************************************)
(* f64 values.  A gamma is a record: kind "fin" with sign sgn and, when    *)
(* positive, the value 1/ln(base); or one of the non-finite kinds.  An     *)
(* input cost is kind "fin" and the real k + h * 1.0e308, k a small        *)
(* integer and h in {-1, 0, 1}; or one of the non-finite kinds.            *)
(***************************************************************************)
GammaFin(s, b) == [kind |-> "fin", sgn |-> s, base |-> b]
GammaNonFin(kd) == [kind |-> kd, sgn |-> 0, base |-> 0]

CostFin(k) == [kind |-> "fin", k |-> k, h |-> 0]
CostHuge(s) == [kind |-> "fin", k |-> 0, h |-> s]
CostNonFin(kd) == [kind |-> kd, k |-> 0, h |-> 0]

\* f64::is_finite on a gamma or an input cost
is_finite_in(v) == v.kind = "fin"

\* gamma <= 0.0 (false for NaN)
gamma_le_zero(g) == (g.kind = "fin" /\ g.sgn <= 0) \/ g.kind = "ninf"

\* the guard `gamma <= 0.0 || !gamma.is_finite()`
gamma_rejected(g) == gamma_le_zero(g) \/ ~is_finite_in(g)

\* weight of the finite input cost k under gamma: exp(-k/gamma) = base^(-k)
ExpNeg(k, g) ==
    IF k >= 0 THEN [num |-> 1, den |-> Pow(g.base, k)]
    ELSE [num |-> Pow(g.base, 0 - k), den |-> 1]

\* DP values of soft_dtw.rs as weights: f64::INFINITY, 0.0
F64_INFINITY == RZero
F64_ZERO == ROne

\* f64::is_finite on a DP value or a log-space value
is_finite(v) == v.num # 0 /\ v.den # 0

(***************************************************************************)
(* The range of f64 in soft_shortest_path.rs.  A finite f64 of the path    *)
(* engine is the real a0 + h * 1.0e308, held as the weight q = exp(-a0 /   *)
(* gamma) and the integer h in {-1, 0, 1}: twice 1.0e308 exceeds f64::MAX  *)
(* (1.797e308), so a sum that reaches h = 2 is +infinity and one that      *)
(* reaches h = -2 is -infinity, while 1.0e308 / gamma stays finite for the *)
(* gammas of the model (1/ln 2 and 1/ln 3).  +infinity is weight 0 and     *)
(* -infinity is weight 1/0.  A log-space number -a/gamma is held as the    *)
(* record of a.  Rounding is not modelled here either: 1.0e308 + 1.0 is    *)
(* held as that real, where f64 gives 1.0e308.                             *)
(***************************************************************************)
Fin(q, hh) == [num |-> q.num, den |-> q.den, h |-> hh]
Mant(v) == [num |-> v.num, den |-> v.den]

INFINITY == [num |-> 0, den |-> 1, h |-> 0]
NEG_INFINITY == [num |-> 1, den |-> 0, h |-> 0]
ZERO == [num |-> 1, den |-> 1, h |-> 0]

\* log-space: -a/gamma is -infinity for a = +infinity
LOG_NEG_INFINITY == INFINITY

\* the f64 of an input cost
cost_f64(c, g) == Fin(ExpNeg(c.k, g), c.h)

\* a + b on f64, one of them finite
f64_add(a, b) ==
    IF a.den = 0 \/ b.den = 0 THEN NEG_INFINITY
    ELSE IF a.num = 0 \/ b.num = 0 THEN INFINITY
    ELSE IF a.h + b.h >= 2 THEN INFINITY
    ELSE IF a.h + b.h <= 0 - 2 THEN NEG_INFINITY
    ELSE Fin(RatMul(Mant(a), Mant(b)), a.h + b.h)

\* a - v on f64, v finite
f64_sub(a, v) == f64_add(a, Fin(RatInv(Mant(v)), 0 - v.h))

\* a < b on f64 values (b < a on their log-space numbers)
f64_lt(a, b) ==
    IF a = b THEN FALSE
    ELSE IF a.den = 0 \/ b.num = 0 THEN TRUE
    ELSE IF b.den = 0 \/ a.num = 0 THEN FALSE
    ELSE IF a.h # b.h THEN a.h < b.h
    ELSE RatLt(Mant(b), Mant(a))

(***************************************************************************)
(* soft_shortest_path.rs                                                   *)
(***************************************************************************)
Edge(f, t, c) == [from |-> f, to |-> t, cost |-> c]

ErrInvalidGamma(g) == [tag |-> "InvalidGamma", gamma |-> g]
ErrTooFewNodes(nn) == [tag |-> "TooFewNodes", n |-> nn]
ErrEdgeOutOfBounds(k, e, nn) ==
    [tag |-> "EdgeOutOfBounds", edge_idx |-> k, from |-> e.from, to |-> e.to, n |-> nn]
ErrNotDagOrder(k, e) ==
    [tag |-> "NotDagOrder", edge_idx |-> k, from |-> e.from, to |-> e.to]
ErrNoPath == [tag |-> "NoPath"]
OkUnit == [tag |-> "Ok"]

\* log_sum_exp: the running maximum, from NEG_INFINITY, replaced when x > m
RECURSIVE lse_max(_, _)
lse_max(xs, mx) ==
    IF xs = <<>> THEN mx
    ELSE lse_max(Tail(xs), IF f64_lt(Head(xs), mx) THEN Head(xs) ELSE mx)

\* (x - m).exp() for a finite m that is the maximum: 0.0 for x = -infinity and for
\* an x below m by about 1.0e308 / gamma
lse_term(xx, mx) ==
    IF xx.num = 0 \/ xx.h > mx.h THEN RZero ELSE RatDiv(Mant(xx), Mant(mx))

\* log_sum_exp: s += (x - m).exp()
RECURSIVE lse_sum(_, _, _)
lse_sum(xs, mx, s) ==
    IF xs = <<>> THEN s
    ELSE lse_sum(Tail(xs), mx, RatAdd(s, lse_term(Head(xs), mx)))

log_sum_exp(xs) ==
    LET mx == lse_max(xs, LOG_NEG_INFINITY)
    IN IF ~is_finite(mx) THEN LOG_NEG_INFINITY
       ELSE Fin(RatMul(Mant(mx), lse_sum(xs, mx, RZero)), mx.h)

\* softmin_gamma: scratch holds -a/gamma for each candidate (the record of a,
\* read as a log-space number), then -gamma * lse
softmin_gamma(g, candidates) ==
    LET scratch == [i \in 1..Len(candidates) |-> candidates[i]]
        lse == log_sum_exp(scratch)
    IN IF lse = LOG_NEG_INFINITY THEN INFINITY ELSE lse

\* validate's checks with the order check ahead of the bounds check
validate_edge_order_first(nn, e, k) ==
    IF e.from >= e.to THEN ErrNotDagOrder(k, e)
    ELSE IF e.from >= nn \/ e.to >= nn THEN ErrEdgeOutOfBounds(k, e, nn)
    ELSE IF ~is_finite_in(e.cost) THEN ErrEdgeOutOfBounds(k, e, nn)
    ELSE OkUnit

\* one edge of validate's loop; k is the 0-based index
validate_edge(nn, e, k) ==
    IF e.from >= nn \/ e.to >= nn THEN ErrEdgeOutOfBounds(k, e, nn)
    ELSE IF e.from >= e.to THEN ErrNotDagOrder(k, e)
    ELSE IF ~is_finite_in(e.cost) THEN ErrEdgeOutOfBounds(k, e, nn)
    ELSE OkUnit

RECURSIVE validate_loop(_, _, _)
validate_loop(nn, es, k) ==
    IF k > Len(es) THEN OkUnit
    ELSE LET c == validate_edge(nn, es[k], k - 1)
         IN IF c.tag # "Ok" THEN c ELSE validate_loop(nn, es, k + 1)

validate(nn, es) ==
    IF nn < 2 THEN ErrTooFewNodes(nn) ELSE validate_loop(nn, es, 1)

EdgeIdx(es) == [k \in 1..Len(es) |-> k]

\* incoming[v], outgoing[u]: the edge indices in list order
incoming(es, v) == SelectSeq(EdgeIdx(es), LAMBDA k : es[k].to = v)
outgoing(es, u) == SelectSeq(EdgeIdx(es), LAMBDA k : es[k].from = u)

\* soft_shortest_path_value: cands for node v
value_cands(es, g, tab, v) ==
    LET fin == SelectSeq(incoming(es, v), LAMBDA k : is_finite(tab[es[k].from]))
    IN [i \in 1..Len(fin) |->
          f64_add(tab[es[fin[i]].from], cost_f64(es[fin[i]].cost, g))]

RECURSIVE value_loop(_, _, _, _, _)
value_loop(nn, es, g, tab, v) ==
    IF v > nn - 1 THEN tab
    ELSE LET cands == value_cands(es, g, tab, v)
         IN value_loop(nn, es, g,
               [tab EXCEPT ![v] = IF cands = <<>> THEN INFINITY
                                 ELSE softmin_gamma(g, cands)],
               v + 1)

\* the whole call: what it returns and the table it built
value_run(nn, es, g) ==
    IF gamma_rejected(g) THEN [ret |-> ErrInvalidGamma(g), dp |-> <<>>]
    ELSE LET c == validate(nn, es)
         IN IF c.tag # "Ok" THEN [ret |-> c, dp |-> <<>>]
            ELSE LET dp0 == [v \in 0..(nn - 1) |-> IF v = 0 THEN ZERO ELSE INFINITY]
                     tab == value_loop(nn, es, g, dp0, 1)
                     v == tab[nn - 1]
                 IN IF ~is_finite(v) THEN [ret |-> ErrNoPath, dp |-> tab]
                    ELSE [ret |-> [tag |-> "Ok", value |-> v], dp |-> tab]

soft_shortest_path_value(nn, es, g) == value_run(nn, es, g).ret

\* the forward candidates without the potential of the tail: cands.push(e.cost)
fwd_cands_cost_only(es, g, f, v) ==
    LET fin == SelectSeq(incoming(es, v), LAMBDA k : is_finite(f[es[k].from]))
    IN [i \in 1..Len(fin) |-> cost_f64(es[fin[i]].cost, g)]

\* soft_shortest_path_edge_marginals: cands of the forward pass for node v
fwd_cands(es, g, f, v) ==
    LET fin == SelectSeq(incoming(es, v), LAMBDA k : is_finite(f[es[k].from]))
    IN [i \in 1..Len(fin) |->
          f64_add(f[es[fin[i]].from], cost_f64(es[fin[i]].cost, g))]

RECURSIVE fwd_loop(_, _, _, _, _)
fwd_loop(nn, es, g, f, v) ==
    IF v > nn - 1 THEN f
    ELSE LET cands == fwd_cands(es, g, f, v)
         IN fwd_loop(nn, es, g,
               [f EXCEPT ![v] = IF cands = <<>> THEN INFINITY
                                ELSE softmin_gamma(g, cands)],
               v + 1)

\* cands of the backward pass for node u
bwd_cands(es, g, b, u) ==
    LET fin == SelectSeq(outgoing(es, u), LAMBDA k : is_finite(b[es[k].to]))
    IN [i \in 1..Len(fin) |->
          f64_add(cost_f64(es[fin[i]].cost, g), b[es[fin[i]].to])]

\* for u_rev in 1..n, with u = n - 1 - u_rev
RECURSIVE bwd_loop(_, _, _, _, _)
bwd_loop(nn, es, g, b, u_rev) ==
    IF u_rev > nn - 1 THEN b
    ELSE LET u == nn - 1 - u_rev
             cands == bwd_cands(es, g, b, u)
         IN bwd_loop(nn, es, g,
               [b EXCEPT ![u] = IF cands = <<>> THEN INFINITY
                                ELSE softmin_gamma(g, cands)],
               u_rev + 1)

\* the cut-off of line 252: z < -745.0, where z = ln(q) for the rational q > 0.
\* ln(q) < -745 iff log2(1/q) > 745/ln(2) = 1074.8..; decided on the integer part
\* of log2(1/q), which is exact for every q outside (2^-1075, 2^-1074).
ExpCutoff == 745

RECURSIVE ILog2(_)
ILog2(k) == IF k <= 1 THEN 0 ELSE 1 + ILog2(k \div 2)

z_below_cutoff(q) ==
    ILog2(q.den \div q.num) >= (ExpCutoff * 1000000) \div 693147 + 1

\* f64::INFINITY as a marginal: what exp returns above its range
P_INFINITY == [num |-> 1, den |-> 0]

\* `if z < -745.0 { 0.0 } else { z.exp() }` for z = -(d / gamma)
exp_or_zero(d) ==
    IF d.den = 0 THEN P_INFINITY
    ELSE IF d.num = 0 THEN RZero
    ELSE IF d.h >= 1 THEN RZero
    ELSE IF d.h <= 0 - 1 THEN P_INFINITY
    ELSE IF z_below_cutoff(Mant(d)) THEN RZero ELSE Mant(d)

\* a + e.cost + b of the marginal loop
edge_sum(e, g, f, b) == f64_add(f64_add(f[e.from], cost_f64(e.cost, g)), b[e.to])

\* p[k] for edge e, from the potentials and the value
edge_marginal(e, g, f, b, value) ==
    LET a == f[e.from]
        bb == b[e.to]
    IN IF is_finite(a) /\ is_finite(bb)
       THEN exp_or_zero(f64_sub(edge_sum(e, g, f, b), value))
       ELSE RZero

marginals_run(nn, es, g) ==
    IF gamma_rejected(g)
    THEN [ret |-> ErrInvalidGamma(g), fwd |-> <<>>, bwd |-> <<>>]
    ELSE LET c == validate(nn, es)
         IN IF c.tag # "Ok" THEN [ret |-> c, fwd |-> <<>>, bwd |-> <<>>]
            ELSE LET f0 == [v \in 0..(nn - 1) |-> IF v = 0 THEN ZERO ELSE INFINITY]
                     f == fwd_loop(nn, es, g, f0, 1)
                     value == f[nn - 1]
                 IN IF ~is_finite(value)
                    THEN [ret |-> ErrNoPath, fwd |-> f, bwd |-> <<>>]
                    ELSE LET b0 == [v \in 0..(nn - 1) |->
                                      IF v = nn - 1 THEN ZERO ELSE INFINITY]
                             b == bwd_loop(nn, es, g, b0, 1)
                             p == [k \in 1..Len(es) |-> edge_marginal(es[k], g, f, b, value)]
                         IN [ret |-> [tag |-> "Ok", value |-> value, p |-> p],
                             fwd |-> f, bwd |-> b]

soft_shortest_path_edge_marginals(nn, es, g) == marginals_run(nn, es, g).ret

(***************************************************************************)
(* usize (64 bits) for the n and m of soft_dtw_cost: eight bytes, least    *)
(* significant first, so that n * m keeps its width.                       *)
(***************************************************************************)
RECURSIVE usize_bytes(_, _)
usize_bytes(k, i) == IF i = 0 THEN <<>> ELSE <<k % 256>> \o usize_bytes(k \div 256, i - 1)

\* the usize of a small natural
USize(k) == usize_bytes(k, 8)

\* 2^32 as a usize
USize2p32 == <<0, 0, 0, 0, 1, 0, 0, 0>>

\* the natural of a usize below 2^24
usize_nat(u) == u[1] + 256 * u[2] + 65536 * u[3]

RECURSIVE mul_column(_, _, _, _)
mul_column(a, b, k, i) ==
    IF i > 8 THEN 0
    ELSE (IF k + 1 - i \in 1..8 THEN a[i] * b[k + 1 - i] ELSE 0) + mul_column(a, b, k, i + 1)

RECURSIVE mul_bytes(_, _, _, _)
mul_bytes(a, b, k, carry) ==
    IF k > 16 THEN <<>>
    ELSE LET t == mul_column(a, b, k, 1) + carry
         IN <<t % 256>> \o mul_bytes(a, b, k + 1, t \div 256)

\* the sixteen bytes of the product of two usize
full_mul(a, b) == mul_bytes(a, b, 1, 0)

\* a * b without overflow checks: the low 64 bits
wrapping_mul(a, b) == SubSeq(full_mul(a, b), 1, 8)

\* a * b leaves 64 bits
mul_overflows(a, b) == SubSeq(full_mul(a, b), 9, 16) # <<0, 0, 0, 0, 0, 0, 0, 0>>

(***************************************************************************)
(* soft_dtw.rs                                                             *)
(***************************************************************************)
ErrEmptyInput == [tag |-> "EmptyInput"]
ErrInvalidCostShape(l, nn, mm, e) ==
    [tag |-> "InvalidCostShape", len |-> l, n |-> nn, m |-> mm, expected |-> e]
Panic == [tag |-> "Panic"]

\* f64::max on log-space values
f64_max(a, b) == IF RatLt(a, b) THEN b ELSE a

\* softmin3 returning -gamma * s.ln(), the shift m not added back
softmin3_unshifted(g, a, b, c) ==
    LET mx == f64_max(f64_max(a, b), c)
    IN IF ~is_finite(mx) THEN F64_INFINITY
       ELSE RatAdd(RatAdd(RatDiv(a, mx), RatDiv(b, mx)), RatDiv(c, mx))

softmin3(g, a, b, c) ==
    LET xa == a
        xb == b
        xc == c
        mx == f64_max(f64_max(xa, xb), xc)
    IN IF ~is_finite(mx) THEN F64_INFINITY
       ELSE LET s == RatAdd(RatAdd(RatDiv(xa, mx), RatDiv(xb, mx)), RatDiv(xc, mx))
            IN RatMul(mx, s)

\* vec![f64::INFINITY; (n + 1) * (m + 1)] with r[0] = 0.0
dtw_table0(nn, mm) ==
    [k \in 0..((nn + 1) * (mm + 1) - 1) |-> IF k = 0 THEN F64_ZERO ELSE F64_INFINITY]

\* soft_dtw with the absolute difference in place of its square
RECURSIVE soft_dtw_loop_abs(_, _, _, _, _, _)
soft_dtw_loop_abs(xs, ys, g, tbl, i, j) ==
    LET nn == Len(xs)
        mm == Len(ys)
        w == mm + 1
    IN IF i > nn THEN tbl
       ELSE IF j > mm THEN soft_dtw_loop_abs(xs, ys, g, tbl, i + 1, 1)
       ELSE LET d == IF xs[i] >= ys[j] THEN xs[i] - ys[j] ELSE ys[j] - xs[i]
                a == tbl[(i - 1) * w + j]
                b == tbl[i * w + (j - 1)]
                c == tbl[(i - 1) * w + (j - 1)]
            IN soft_dtw_loop_abs(xs, ys, g,
                  [tbl EXCEPT ![i * w + j] = RatMul(ExpNeg(d, g), softmin3(g, a, b, c))],
                  i, j + 1)

\* soft_dtw: the loops over i in 1..=n, j in 1..=m (x, y are 1-based here)
RECURSIVE soft_dtw_loop(_, _, _, _, _, _)
soft_dtw_loop(xs, ys, g, tbl, i, j) ==
    LET nn == Len(xs)
        mm == Len(ys)
        w == mm + 1
    IN IF i > nn THEN tbl
       ELSE IF j > mm THEN soft_dtw_loop(xs, ys, g, tbl, i + 1, 1)
       ELSE LET d == (xs[i] - ys[j]) * (xs[i] - ys[j])
                a == tbl[(i - 1) * w + j]
                b == tbl[i * w + (j - 1)]
                c == tbl[(i - 1) * w + (j - 1)]
            IN soft_dtw_loop(xs, ys, g,
                  [tbl EXCEPT ![i * w + j] = RatMul(ExpNeg(d, g), softmin3(g, a, b, c))],
                  i, j + 1)

soft_dtw_run(xs, ys, g) ==
    IF gamma_rejected(g) THEN [ret |-> ErrInvalidGamma(g), r |-> <<>>]
    ELSE IF xs = <<>> \/ ys = <<>> THEN [ret |-> ErrEmptyInput, r |-> <<>>]
    ELSE LET nn == Len(xs)
             mm == Len(ys)
             w == mm + 1
             tbl == soft_dtw_loop(xs, ys, g, dtw_table0(nn, mm), 1, 1)
         IN [ret |-> [tag |-> "Ok", value |-> tbl[nn * w + mm]], r |-> tbl]

soft_dtw(xs, ys, g) == soft_dtw_run(xs, ys, g).ret

\* soft_dtw_cost: the loops, on the cost buffer (1-based here)
RECURSIVE soft_dtw_cost_loop(_, _, _, _, _, _, _)
soft_dtw_cost_loop(cs, nn, mm, g, tbl, i, j) ==
    LET w == mm + 1
    IN IF i > nn THEN tbl
       ELSE IF j > mm THEN soft_dtw_cost_loop(cs, nn, mm, g, tbl, i + 1, 1)
       ELSE LET d == cs[(i - 1) * mm + (j - 1) + 1]
                a == tbl[(i - 1) * w + j]
                b == tbl[i * w + (j - 1)]
                c == tbl[(i - 1) * w + (j - 1)]
            IN soft_dtw_cost_loop(cs, nn, mm, g,
                  [tbl EXCEPT ![i * w + j] = RatMul(ExpNeg(d, g), softmin3(g, a, b, c))],
                  i, j + 1)

\* soft_dtw_cost with the emptiness check ahead of the gamma check
soft_dtw_cost_run_empty_first(cs, un, um, g, bld) ==
    IF un = USize(0) \/ um = USize(0) THEN [ret |-> ErrEmptyInput, r |-> <<>>]
    ELSE IF gamma_rejected(g) THEN [ret |-> ErrInvalidGamma(g), r |-> <<>>]
    ELSE [ret |-> Panic, r |-> <<>>]

\* un, um are usize; bld says whether the build checks integer overflow.
\* With the checks, an overflowing n * m panics.  Without, it wraps: when the
\* wrapped product equals cost.len() the shape check passes although the
\* buffer is shorter than n * m, and the call then ends in a panic (the first
\* cost index past the buffer, or the allocation of the table).
soft_dtw_cost_run(cs, un, um, g, bld) ==
    IF gamma_rejected(g) THEN [ret |-> ErrInvalidGamma(g), r |-> <<>>]
    ELSE IF un = USize(0) \/ um = USize(0) THEN [ret |-> ErrEmptyInput, r |-> <<>>]
    ELSE IF mul_overflows(un, um) /\ bld = "checked" THEN [ret |-> Panic, r |-> <<>>]
    ELSE IF USize(Len(cs)) # wrapping_mul(un, um)
         THEN [ret |-> ErrInvalidCostShape(Len(cs), un, um, wrapping_mul(un, um)), r |-> <<>>]
    ELSE IF mul_overflows(un, um) THEN [ret |-> Panic, r |-> <<>>]
    ELSE LET nn == usize_nat(un)
             mm == usize_nat(um)
             w == mm + 1
             tbl == soft_dtw_cost_loop(cs, nn, mm, g, dtw_table0(nn, mm), 1, 1)
         IN [ret |-> [tag |-> "Ok", value |-> tbl[nn * w + mm]], r |-> tbl]

soft_dtw_cost(cs, un, um, g, bld) == soft_dtw_cost_run(cs, un, um, g, bld).ret

\* xy + 0.5 * xx + 0.5 * yy: the self terms added
divergence_value_self_added(xy, xx, yy) ==
    [tag |-> "Ok", value2 |-> RatMul(RatMul(RatMul(xy, xy), xx), yy)]

\* xy - xx - yy: both halves forgotten
divergence_value_full_self(xy, xx, yy) ==
    [tag |-> "Ok", value2 |-> RatDiv(RatDiv(RatMul(xy, xy), RatMul(xx, xx)), RatMul(yy, yy))]

\* xy - 0.5 * xx - yy: the second half forgotten
divergence_value_unhalved(xy, xx, yy) ==
    [tag |-> "Ok", value2 |-> RatDiv(RatDiv(RatMul(xy, xy), xx), RatMul(yy, yy))]

\* xy - 0.5 * xx - 0.5 * yy.  The difference d is held as exp(-2d/gamma), the
\* weight of 2d: the weight of xy squared, divided by those of xx and of yy.
divergence_value(xy, xx, yy) ==
    [tag |-> "Ok", value2 |-> RatDiv(RatDiv(RatMul(xy, xy), xx), yy)]

soft_dtw_divergence_run(xs, ys, g) ==
    LET xy == soft_dtw_run(xs, ys, g)
    IN IF xy.ret.tag # "Ok" THEN [ret |-> xy.ret, r |-> <<>>]
       ELSE LET xx == soft_dtw_run(xs, xs, g)
            IN IF xx.ret.tag # "Ok" THEN [ret |-> xx.ret, r |-> <<xy.r>>]
               ELSE LET yy == soft_dtw_run(ys, ys, g)
                    IN IF yy.ret.tag # "Ok" THEN [ret |-> yy.ret, r |-> <<xy.r, xx.r>>]
                       ELSE [ret |-> divergence_value(xy.ret.value, xx.ret.value, yy.ret.value),
                             r |-> <<xy.r, xx.r, yy.r>>]

soft_dtw_divergence(xs, ys, g) == soft_dtw_divergence_run(xs, ys, g).ret

soft_dtw_divergence_cost_run(cxy, cxx, cyy, un, um, g, bld) ==
    LET xy == soft_dtw_cost_run(cxy, un, um, g, bld)
    IN IF xy.ret.tag # "Ok" THEN [ret |-> xy.ret, r |-> <<>>]
       ELSE LET xx == soft_dtw_cost_run(cxx, un, un, g, bld)
            IN IF xx.ret.tag # "Ok" THEN [ret |-> xx.ret, r |-> <<xy.r>>]
               ELSE LET yy == soft_dtw_cost_run(cyy, um, um, g, bld)
                    IN IF yy.ret.tag # "Ok" THEN [ret |-> yy.ret, r |-> <<xy.r, xx.r>>]
                       ELSE [ret |-> divergence_value(xy.ret.value, xx.ret.value, yy.ret.value),
                             r |-> <<xy.r, xx.r, yy.r>>]

soft_dtw_divergence_cost(cxy, cxx, cyy, un, um, g, bld) ==
    soft_dtw_divergence_cost_run(cxy, cxx, cyy, un, um, g, bld).ret

(***************************************************************************)
(* The calls.  A call runs to its end in one step: pc goes from "idle" to  *)
(* "done" with the arguments, the tables the call built and what it        *)
(* returned; Return forgets them.                                          *)
(***************************************************************************)
NoResult == [tag |-> "None"]

Init ==
    /\ pc = "idle"
    /\ op = "none"
    /\ build = "checked"
    /\ gamma = GammaFin(1, 2)
    /\ n = 0
    /\ edges = <<>>
    /\ dtw_n = USize(0)
    /\ dtw_m = USize(0)
    /\ x = <<>>
    /\ y = <<>>
    /\ cost = <<>>
    /\ cost_xx = <<>>
    /\ cost_yy = <<>>
    /\ dp = <<>>
    /\ fwd = <<>>
    /\ bwd = <<>>
    /\ r = <<>>
    /\ result = NoResult
    /\ phase = "none"
    /\ cur_i = 0
    /\ cur_j = 0
    /\ writes = <<>>
    /\ sub = <<>>

call_soft_shortest_path_value(nn, es, g) ==
    LET run == value_run(nn, es, g)
    IN
    /\ pc' = "done"
    /\ op' = "soft_shortest_path_value"
    /\ n' = nn
    /\ edges' = es
    /\ gamma' = g
    /\ dp' = run.dp
    /\ result' = run.ret
    /\ UNCHANGED <<build, dtw_n, dtw_m, x, y, cost, cost_xx, cost_yy, fwd, bwd, r>>
    /\ UNCHANGED loopvars

call_soft_shortest_path_edge_marginals(nn, es, g) ==
    LET run == marginals_run(nn, es, g)
    IN
    /\ pc' = "done"
    /\ op' = "soft_shortest_path_edge_marginals"
    /\ n' = nn
    /\ edges' = es
    /\ gamma' = g
    /\ fwd' = run.fwd
    /\ bwd' = run.bwd
    /\ result' = run.ret
    /\ UNCHANGED <<build, dtw_n, dtw_m, x, y, cost, cost_xx, cost_yy, dp, r>>
    /\ UNCHANGED loopvars

call_soft_dtw(xs, ys, g) ==
    LET run == soft_dtw_run(xs, ys, g)
    IN
    /\ pc' = "done"
    /\ op' = "soft_dtw"
    /\ x' = xs
    /\ y' = ys
    /\ gamma' = g
    /\ r' = run.r
    /\ result' = run.ret
    /\ UNCHANGED <<build, n, edges, dtw_n, dtw_m, cost, cost_xx, cost_yy, dp, fwd, bwd>>
    /\ UNCHANGED loopvars

call_soft_dtw_cost(cs, un, um, g, bld) ==
    LET run == soft_dtw_cost_run(cs, un, um, g, bld)
    IN
    /\ pc' = "done"
    /\ op' = "soft_dtw_cost"
    /\ cost' = cs
    /\ dtw_n' = un
    /\ dtw_m' = um
    /\ gamma' = g
    /\ build' = bld
    /\ r' = run.r
    /\ result' = run.ret
    /\ UNCHANGED <<n, edges, x, y, cost_xx, cost_yy, dp, fwd, bwd>>
    /\ UNCHANGED loopvars

call_soft_dtw_divergence(xs, ys, g) ==
    LET run == soft_dtw_divergence_run(xs, ys, g)
    IN
    /\ pc' = "done"
    /\ op' = "soft_dtw_divergence"
    /\ x' = xs
    /\ y' = ys
    /\ gamma' = g
    /\ r' = run.r
    /\ result' = run.ret
    /\ UNCHANGED <<build, n, edges, dtw_n, dtw_m, cost, cost_xx, cost_yy, dp, fwd, bwd>>
    /\ UNCHANGED loopvars

call_soft_dtw_divergence_cost(cxy, cxx, cyy, un, um, g, bld) ==
    LET run == soft_dtw_divergence_cost_run(cxy, cxx, cyy, un, um, g, bld)
    IN
    /\ pc' = "done"
    /\ op' = "soft_dtw_divergence_cost"
    /\ cost' = cxy
    /\ cost_xx' = cxx
    /\ cost_yy' = cyy
    /\ dtw_n' = un
    /\ dtw_m' = um
    /\ gamma' = g
    /\ build' = bld
    /\ r' = run.r
    /\ result' = run.ret
    /\ UNCHANGED <<n, edges, x, y, dp, fwd, bwd>>
    /\ UNCHANGED loopvars

Return ==
    /\ pc = "done"
    /\ pc' = "idle"
    /\ op' = "none"
    /\ build' = "checked"
    /\ gamma' = GammaFin(1, 2)
    /\ n' = 0
    /\ edges' = <<>>
    /\ dtw_n' = USize(0)
    /\ dtw_m' = USize(0)
    /\ x' = <<>>
    /\ y' = <<>>
    /\ cost' = <<>>
    /\ cost_xx' = <<>>
    /\ cost_yy' = <<>>
    /\ dp' = <<>>
    /\ fwd' = <<>>
    /\ bwd' = <<>>
    /\ r' = <<>>
    /\ result' = NoResult
    /\ phase' = "none"
    /\ cur_i' = 0
    /\ cur_j' = 0
    /\ writes' = <<>>
    /\ sub' = <<>>

(***************************************************************************)
(* The inputs.                                                             *)
(***************************************************************************)
SeqsUpTo(S, lo, hi) == UNION {[1..k -> S] : k \in lo..hi}

GammaBases == {2, 3}
ValidGammas == {GammaFin(1, b) : b \in GammaBases}
InvalidGammas ==
    {GammaFin(0, 0), GammaFin(-1, 2), GammaNonFin("nan"), GammaNonFin("inf"),
     GammaNonFin("ninf")}
AnyGammas == ValidGammas \cup InvalidGammas
Builds == {"checked", "wrapping"}

\* SpecPath: the finite costs 1..MaxCost, 1.0e308 and -1.0e308
PathCosts == {CostFin(c) : c \in 1..MaxCost} \cup {CostHuge(1), CostHuge(0 - 1)}
\* every list of up to MaxEdges edges with from < to < nn and one of these costs
DagEdges(nn) ==
    {Edge(f, t, c) : f \in 0..(nn - 1), t \in 0..(nn - 1), c \in PathCosts}
DagEdgesOf(nn) == {e \in DagEdges(nn) : e.from < e.to}
\* the diamond of the unit test, with its costs 1, 2, 3, 4
TestDiamond ==
    <<Edge(0, 1, CostFin(1)), Edge(1, 3, CostFin(2)),
      Edge(0, 2, CostFin(3)), Edge(2, 3, CostFin(4))>>
\* two graphs on four nodes and four edges, with every choice of costs: the diamond
\* 0->1->3, 0->2->3 and the chain 0->1->2->3 with the edge 0->3 beside it
DiamondShape == <<<<0, 1>>, <<1, 3>>, <<0, 2>>, <<2, 3>>>>
ChainShape == <<<<0, 1>>, <<1, 2>>, <<2, 3>>, <<0, 3>>>>
ShapeLists(shape) ==
    {[i \in 1..4 |-> Edge(shape[i][1], shape[i][2], cs[i])] : cs \in [1..4 -> PathCosts]}
DagEdgeLists(nn) ==
    SeqsUpTo(DagEdgesOf(nn), 0, MaxEdges)
        \cup (IF nn = 4
              THEN {TestDiamond} \cup ShapeLists(DiamondShape) \cup ShapeLists(ChainShape)
              ELSE {})

\* SpecDtw: non-empty sequences, and cost buffers of n * m elements
DtwGammas == {GammaFin(1, 2)}
DtwSeqs == SeqsUpTo(0..MaxVal, 1, MaxLen)
DtwBufs(nn, mm) == [1..(nn * mm) -> 0..1]

\* SpecDiv: non-empty sequences
DivSeqs == SeqsUpTo(0..MaxDivVal, 1, MaxLen)

\* Spec: any node count, any endpoints, finite and non-finite costs
AnyCosts == {CostFin(1), CostNonFin("nan"), CostNonFin("inf")}
AnyEdges ==
    {Edge(f, t, c) : f \in 0..MaxAnyNodes, t \in 0..MaxAnyNodes, c \in AnyCosts}
AnyEdgeLists == SeqsUpTo(AnyEdges, 0, MaxAnyEdges)
AnySeqs == SeqsUpTo(0..MaxAnyVal, 0, MaxAnyLen)
AnyBufs == SeqsUpTo(0..MaxAnyVal, 0, MaxBuf)
FlatBufs == {[i \in 1..(a * b) |-> 1] : a \in 0..MaxFlatDim, b \in 0..MaxFlatDim}
AnyDims == {USize(k) : k \in 0..MaxDim} \cup {USize2p32}

\* Each call is one step from "idle"; the node count, the gamma and the operation
\* are chosen first, so that the calls on small graphs are separate steps.
PathCall ==
    \E nn \in 2..MaxNodes : \E g \in ValidGammas :
        \/ /\ pc = "idle"
           /\ \E es \in DagEdgeLists(nn) : call_soft_shortest_path_value(nn, es, g)
        \/ /\ pc = "idle"
           /\ \E es \in DagEdgeLists(nn) : call_soft_shortest_path_edge_marginals(nn, es, g)

NextPath == PathCall \/ Return

SpecPath == Init /\ [][NextPath]_vars

DtwSoftDtw ==
    \E g \in DtwGammas : \E xs \in DtwSeqs :
        /\ pc = "idle"
        /\ \E ys \in DtwSeqs : call_soft_dtw(xs, ys, g)

DtwSoftDtwCost ==
    \E nn \in 1..MaxLen : \E mm \in 1..MaxLen : \E g \in DtwGammas : \E bld \in Builds :
        /\ pc = "idle"
        /\ \E cs \in DtwBufs(nn, mm) : call_soft_dtw_cost(cs, USize(nn), USize(mm), g, bld)

NextDtw == DtwSoftDtw \/ DtwSoftDtwCost \/ Return

SpecDtw == Init /\ [][NextDtw]_vars

DivSoftDtwDivergence ==
    \E g \in ValidGammas : \E xs \in DivSeqs :
        /\ pc = "idle"
        /\ \E ys \in DivSeqs : call_soft_dtw_divergence(xs, ys, g)

NextDiv == DivSoftDtwDivergence \/ Return

SpecDiv == Init /\ [][NextDiv]_vars

AnyPathValue ==
    \E nn \in 0..MaxAnyNodes : \E g \in AnyGammas :
        /\ pc = "idle"
        /\ \E es \in AnyEdgeLists : call_soft_shortest_path_value(nn, es, g)

AnyPathMarginals ==
    \E nn \in 0..MaxAnyNodes : \E g \in AnyGammas :
        /\ pc = "idle"
        /\ \E es \in AnyEdgeLists : call_soft_shortest_path_edge_marginals(nn, es, g)

AnySoftDtw ==
    \E g \in AnyGammas :
        /\ pc = "idle"
        /\ \E xs \in AnySeqs : \E ys \in AnySeqs : call_soft_dtw(xs, ys, g)

AnySoftDtwDivergence ==
    \E g \in AnyGammas :
        /\ pc = "idle"
        /\ \E xs \in AnySeqs : \E ys \in AnySeqs : call_soft_dtw_divergence(xs, ys, g)

AnySoftDtwCost ==
    \E g \in AnyGammas : \E bld \in Builds : \E un \in AnyDims : \E um \in AnyDims :
        /\ pc = "idle"
        /\ \E cs \in AnyBufs : call_soft_dtw_cost(cs, un, um, g, bld)

AnySoftDtwDivergenceCost ==
    \E g \in AnyGammas : \E bld \in Builds : \E un \in AnyDims : \E um \in AnyDims :
        /\ pc = "idle"
        /\ \E cxy \in FlatBufs : \E cxx \in FlatBufs : \E cyy \in FlatBufs :
              call_soft_dtw_divergence_cost(cxy, cxx, cyy, un, um, g, bld)

Next ==
    \/ AnyPathValue
    \/ AnyPathMarginals
    \/ AnySoftDtw
    \/ AnySoftDtwCost
    \/ AnySoftDtwDivergence
    \/ AnySoftDtwDivergenceCost
    \/ Return

Spec == Init /\ [][Next]_vars

(***************************************************************************)
(* The loops, step by step.  A call is begun (pc "enter"), makes its       *)
(* checks, and then runs its loops one iteration per step: pc "fill" for   *)
(* the table of soft_dtw and soft_dtw_cost, "fwd" and "bwd" for the two    *)
(* passes over the nodes.  A divergence makes its three sub-calls one      *)
(* after the other (phase "xy", "xx", "yy"); r is the table of the         *)
(* sub-call it is in.  writes lists the table indices written, in order.   *)
(***************************************************************************)
PathOps == {"soft_shortest_path_value", "soft_shortest_path_edge_marginals"}
ScalarOps == {"soft_dtw", "soft_dtw_divergence"}
CostOps == {"soft_dtw_cost", "soft_dtw_divergence_cost"}
DivergenceOps == {"soft_dtw_divergence", "soft_dtw_divergence_cost"}
DtwOps == ScalarOps \cup CostOps

\* the arguments of the sub-call: (x, y), (x, x), (y, y), and
\* (cost_xy, n, m), (cost_xx, n, n), (cost_yy, m, m)
sub_x == IF phase = "yy" THEN y ELSE x
sub_y == IF phase = "xx" THEN x ELSE y
sub_cost == IF phase = "xx" THEN cost_xx ELSE IF phase = "yy" THEN cost_yy ELSE cost
sub_un == IF phase = "yy" THEN dtw_m ELSE dtw_n
sub_um == IF phase = "xx" THEN dtw_n ELSE dtw_m
sub_n == IF op \in ScalarOps THEN Len(sub_x) ELSE usize_nat(sub_un)
sub_m == IF op \in ScalarOps THEN Len(sub_y) ELSE usize_nat(sub_um)

\* the checks of soft_dtw ahead of its table
soft_dtw_check(xs, ys, g) ==
    IF gamma_rejected(g) THEN ErrInvalidGamma(g)
    ELSE IF xs = <<>> \/ ys = <<>> THEN ErrEmptyInput
    ELSE OkUnit

\* the checks of soft_dtw_cost ahead of its table; the panics are those of
\* soft_dtw_cost_run
soft_dtw_cost_check(cs, un, um, g, bld) ==
    IF gamma_rejected(g) THEN ErrInvalidGamma(g)
    ELSE IF un = USize(0) \/ um = USize(0) THEN ErrEmptyInput
    ELSE IF mul_overflows(un, um) /\ bld = "checked" THEN Panic
    ELSE IF USize(Len(cs)) # wrapping_mul(un, um)
         THEN ErrInvalidCostShape(Len(cs), un, um, wrapping_mul(un, um))
    ELSE IF mul_overflows(un, um) THEN Panic
    ELSE OkUnit

\* the checks of the two path operations ahead of their tables
path_check(nn, es, g) ==
    IF gamma_rejected(g) THEN ErrInvalidGamma(g) ELSE validate(nn, es)

\* d of the loop body, for i in 1..=n and j in 1..=m
cell_cost(i, j) ==
    IF op \in ScalarOps
    THEN (sub_x[i] - sub_y[j]) * (sub_x[i] - sub_y[j])
    ELSE sub_cost[(i - 1) * sub_m + (j - 1) + 1]

\* the loops with j outside and i inside
next_cell_column_first(i, j, nn, mm) ==
    IF i < nn THEN <<i + 1, j>>
    ELSE IF j < mm THEN <<1, j + 1>>
    ELSE <<nn + 1, 1>>

\* the inner loop left after its first run
next_cell_rows_only(i, j, nn, mm) == <<i + 1, 1>>

\* for i in 1..=n { for j in 1..=m { .. } }: the indices after the body has
\* run at (i, j); i = n + 1 when both loops have ended
next_cell(i, j, nn, mm) ==
    IF j < mm THEN <<i, j + 1>> ELSE <<i + 1, 1>>

begin_soft_dtw(xs, ys, g) ==
    /\ pc' = "enter"
    /\ op' = "soft_dtw"
    /\ x' = xs
    /\ y' = ys
    /\ gamma' = g
    /\ phase' = "xy"
    /\ UNCHANGED <<build, n, edges, dtw_n, dtw_m, cost, cost_xx, cost_yy, dp, fwd, bwd,
                   r, result, cur_i, cur_j, writes, sub>>

begin_soft_dtw_cost(cs, un, um, g, bld) ==
    /\ pc' = "enter"
    /\ op' = "soft_dtw_cost"
    /\ cost' = cs
    /\ dtw_n' = un
    /\ dtw_m' = um
    /\ gamma' = g
    /\ build' = bld
    /\ phase' = "xy"
    /\ UNCHANGED <<n, edges, x, y, cost_xx, cost_yy, dp, fwd, bwd,
                   r, result, cur_i, cur_j, writes, sub>>

begin_soft_dtw_divergence(xs, ys, g) ==
    /\ pc' = "enter"
    /\ op' = "soft_dtw_divergence"
    /\ x' = xs
    /\ y' = ys
    /\ gamma' = g
    /\ phase' = "xy"
    /\ UNCHANGED <<build, n, edges, dtw_n, dtw_m, cost, cost_xx, cost_yy, dp, fwd, bwd,
                   r, result, cur_i, cur_j, writes, sub>>

begin_soft_dtw_divergence_cost(cxy, cxx, cyy, un, um, g, bld) ==
    /\ pc' = "enter"
    /\ op' = "soft_dtw_divergence_cost"
    /\ cost' = cxy
    /\ cost_xx' = cxx
    /\ cost_yy' = cyy
    /\ dtw_n' = un
    /\ dtw_m' = um
    /\ gamma' = g
    /\ build' = bld
    /\ phase' = "xy"
    /\ UNCHANGED <<n, edges, x, y, dp, fwd, bwd, r, result, cur_i, cur_j, writes, sub>>

begin_soft_shortest_path_value(nn, es, g) ==
    /\ pc' = "enter"
    /\ op' = "soft_shortest_path_value"
    /\ n' = nn
    /\ edges' = es
    /\ gamma' = g
    /\ UNCHANGED <<build, dtw_n, dtw_m, x, y, cost, cost_xx, cost_yy, dp, fwd, bwd,
                   r, result, phase, cur_i, cur_j, writes, sub>>

begin_soft_shortest_path_edge_marginals(nn, es, g) ==
    /\ pc' = "enter"
    /\ op' = "soft_shortest_path_edge_marginals"
    /\ n' = nn
    /\ edges' = es
    /\ gamma' = g
    /\ UNCHANGED <<build, dtw_n, dtw_m, x, y, cost, cost_xx, cost_yy, dp, fwd, bwd,
                   r, result, phase, cur_i, cur_j, writes, sub>>

\* soft_dtw, soft_dtw_cost and the sub-calls of the divergences: the checks,
\* then vec![f64::INFINITY; (n + 1) * (m + 1)] with r[0] = 0.0
enter_soft_dtw ==
    /\ pc = "enter"
    /\ op \in DtwOps
    /\ LET c == IF op \in ScalarOps
                THEN soft_dtw_check(sub_x, sub_y, gamma)
                ELSE soft_dtw_cost_check(sub_cost, sub_un, sub_um, gamma, build)
       IN IF c.tag # "Ok"
          THEN /\ pc' = "done"
               /\ result' = c
               /\ UNCHANGED <<r, cur_i, cur_j>>
          ELSE /\ pc' = "fill"
               /\ r' = dtw_table0(sub_n, sub_m)
               /\ cur_i' = 1
               /\ cur_j' = 1
               /\ UNCHANGED result
    /\ UNCHANGED <<op, build, gamma, n, edges, dtw_n, dtw_m, x, y, cost, cost_xx, cost_yy,
                   dp, fwd, bwd, phase, writes, sub>>

\* one run of the loop body: r[i * w + j] = d + softmin3(gamma, a, b, c)
fill_cell ==
    /\ pc = "fill"
    /\ cur_i <= sub_n
    /\ LET w == sub_m + 1
           d == cell_cost(cur_i, cur_j)
           a == r[(cur_i - 1) * w + cur_j]
           b == r[cur_i * w + (cur_j - 1)]
           c == r[(cur_i - 1) * w + (cur_j - 1)]
           nxt == next_cell(cur_i, cur_j, sub_n, sub_m)
       IN /\ r' = [r EXCEPT ![cur_i * w + cur_j] =
                      RatMul(ExpNeg(d, gamma), softmin3(gamma, a, b, c))]
          /\ writes' = Append(writes, cur_i * w + cur_j)
          /\ cur_i' = nxt[1]
          /\ cur_j' = nxt[2]
    /\ UNCHANGED <<pc, op, build, gamma, n, edges, dtw_n, dtw_m, x, y, cost, cost_xx, cost_yy,
                   dp, fwd, bwd, result, phase, sub>>

\* Ok(r[n * w + m]) after the loops; a divergence goes on to its next sub-call
\* and returns xy - 0.5 * xx - 0.5 * yy after the third
fill_exit ==
    /\ pc = "fill"
    /\ cur_i > sub_n
    /\ LET v == r[sub_n * (sub_m + 1) + sub_m]
       IN IF op \notin DivergenceOps
          THEN /\ pc' = "done"
               /\ result' = [tag |-> "Ok", value |-> v]
               /\ UNCHANGED <<phase, sub>>
          ELSE IF phase = "yy"
          THEN /\ pc' = "done"
               /\ result' = divergence_value(sub[1], sub[2], v)
               /\ sub' = Append(sub, v)
               /\ UNCHANGED phase
          ELSE /\ pc' = "enter"
               /\ phase' = (IF phase = "xy" THEN "xx" ELSE "yy")
               /\ sub' = Append(sub, v)
               /\ UNCHANGED result
    /\ UNCHANGED <<op, build, gamma, n, edges, dtw_n, dtw_m, x, y, cost, cost_xx, cost_yy,
                   dp, fwd, bwd, r, cur_i, cur_j, writes>>

\* the two path operations: the checks, then vec![f64::INFINITY; n] with [0] = 0.0
enter_path ==
    /\ pc = "enter"
    /\ op \in PathOps
    /\ LET c == path_check(n, edges, gamma)
           t0 == [v \in 0..(n - 1) |-> IF v = 0 THEN ZERO ELSE INFINITY]
       IN IF c.tag # "Ok"
          THEN /\ pc' = "done"
               /\ result' = c
               /\ UNCHANGED <<dp, fwd, cur_i>>
          ELSE /\ pc' = "fwd"
               /\ cur_i' = 1
               /\ IF op = "soft_shortest_path_value"
                  THEN dp' = t0 /\ UNCHANGED fwd
                  ELSE fwd' = t0 /\ UNCHANGED dp
               /\ UNCHANGED result
    /\ UNCHANGED <<op, build, gamma, n, edges, dtw_n, dtw_m, x, y, cost, cost_xx, cost_yy,
                   bwd, r, phase, cur_j, writes, sub>>

\* for v in 1..n: one node of the forward pass
fwd_node ==
    /\ pc = "fwd"
    /\ cur_i <= n - 1
    /\ IF op = "soft_shortest_path_value"
       THEN /\ LET cands == value_cands(edges, gamma, dp, cur_i)
               IN dp' = [dp EXCEPT ![cur_i] = IF cands = <<>> THEN INFINITY
                                               ELSE softmin_gamma(gamma, cands)]
            /\ UNCHANGED fwd
       ELSE /\ LET cands == fwd_cands(edges, gamma, fwd, cur_i)
               IN fwd' = [fwd EXCEPT ![cur_i] = IF cands = <<>> THEN INFINITY
                                                 ELSE softmin_gamma(gamma, cands)]
            /\ UNCHANGED dp
    /\ writes' = Append(writes, cur_i)
    /\ cur_i' = cur_i + 1
    /\ UNCHANGED <<pc, op, build, gamma, n, edges, dtw_n, dtw_m, x, y, cost, cost_xx, cost_yy,
                   bwd, r, result, phase, cur_j, sub>>

\* after the forward pass: NoPath, or the value, or on to the backward pass
fwd_exit ==
    /\ pc = "fwd"
    /\ cur_i > n - 1
    /\ LET v == IF op = "soft_shortest_path_value" THEN dp[n - 1] ELSE fwd[n - 1]
       IN IF ~is_finite(v)
          THEN /\ pc' = "done"
               /\ result' = ErrNoPath
               /\ UNCHANGED <<bwd, cur_i>>
          ELSE IF op = "soft_shortest_path_value"
          THEN /\ pc' = "done"
               /\ result' = [tag |-> "Ok", value |-> v]
               /\ UNCHANGED <<bwd, cur_i>>
          ELSE /\ pc' = "bwd"
               /\ bwd' = [u \in 0..(n - 1) |-> IF u = n - 1 THEN ZERO ELSE INFINITY]
               /\ cur_i' = 1
               /\ UNCHANGED result
    /\ UNCHANGED <<op, build, gamma, n, edges, dtw_n, dtw_m, x, y, cost, cost_xx, cost_yy,
                   dp, fwd, r, phase, cur_j, writes, sub>>

\* for u_rev in 1..n: one node of the backward pass, u = n - 1 - u_rev; the
\* index written is listed after those of fwd
bwd_node ==
    /\ pc = "bwd"
    /\ cur_i <= n - 1
    /\ LET u == n - 1 - cur_i
           cands == bwd_cands(edges, gamma, bwd, u)
       IN /\ bwd' = [bwd EXCEPT ![u] = IF cands = <<>> THEN INFINITY
                                       ELSE softmin_gamma(gamma, cands)]
          /\ writes' = Append(writes, n + u)
    /\ cur_i' = cur_i + 1
    /\ UNCHANGED <<pc, op, build, gamma, n, edges, dtw_n, dtw_m, x, y, cost, cost_xx, cost_yy,
                   dp, fwd, r, result, phase, cur_j, sub>>

\* after the backward pass: the marginals of all edges, and Ok((value, p))
bwd_exit ==
    /\ pc = "bwd"
    /\ cur_i > n - 1
    /\ pc' = "done"
    /\ LET value == fwd[n - 1]
           p == [k \in 1..Len(edges) |-> edge_marginal(edges[k], gamma, fwd, bwd, value)]
       IN result' = [tag |-> "Ok", value |-> value, p |-> p]
    /\ UNCHANGED <<op, build, gamma, n, edges, dtw_n, dtw_m, x, y, cost, cost_xx, cost_yy,
                   dp, fwd, bwd, r, phase, cur_i, cur_j, writes, sub>>

\* what the whole call returns, from the operators above
call_result ==
    IF op = "soft_shortest_path_value" THEN soft_shortest_path_value(n, edges, gamma)
    ELSE IF op = "soft_shortest_path_edge_marginals"
    THEN soft_shortest_path_edge_marginals(n, edges, gamma)
    ELSE IF op = "soft_dtw" THEN soft_dtw(x, y, gamma)
    ELSE IF op = "soft_dtw_cost" THEN soft_dtw_cost(cost, dtw_n, dtw_m, gamma, build)
    ELSE IF op = "soft_dtw_divergence" THEN soft_dtw_divergence(x, y, gamma)
    ELSE soft_dtw_divergence_cost(cost, cost_xx, cost_yy, dtw_n, dtw_m, gamma, build)

\* a call followed step by step returns what the call run in one step returns
StepsReturnCallResult == pc = "done" => result = call_result

\* SpecFill: soft_dtw and soft_dtw_cost, cell by cell
FillSoftDtw ==
    \E g \in DtwGammas : \E xs \in DtwSeqs :
        /\ pc = "idle"
        /\ \E ys \in DtwSeqs : begin_soft_dtw(xs, ys, g)

FillSoftDtwCost ==
    \E nn \in 1..MaxLen : \E mm \in 1..MaxLen : \E g \in DtwGammas : \E bld \in Builds :
        /\ pc = "idle"
        /\ \E cs \in DtwBufs(nn, mm) : begin_soft_dtw_cost(cs, USize(nn), USize(mm), g, bld)

NextFill ==
    \/ FillSoftDtw
    \/ FillSoftDtwCost
    \/ enter_soft_dtw
    \/ fill_cell
    \/ fill_exit
    \/ Return

SpecFill == Init /\ [][NextFill]_vars

\* SpecSteps: the six operations step by step, on valid and invalid inputs.
StepEdges ==
    {Edge(f, t, c) : f \in 0..MaxStepNodes, t \in 0..MaxStepNodes,
                     c \in {CostFin(1), CostNonFin("nan")}}
StepEdgeLists == SeqsUpTo(StepEdges, 0, MaxStepEdges)
StepGammas == {GammaFin(1, 2), GammaFin(0, 0), GammaNonFin("nan")}

StepsPathValue ==
    \E nn \in 0..MaxStepNodes : \E g \in StepGammas :
        /\ pc = "idle"
        /\ \E es \in StepEdgeLists : begin_soft_shortest_path_value(nn, es, g)

StepsPathMarginals ==
    \E nn \in 0..MaxStepNodes : \E g \in StepGammas :
        /\ pc = "idle"
        /\ \E es \in StepEdgeLists : begin_soft_shortest_path_edge_marginals(nn, es, g)

StepsSoftDtw ==
    \E g \in StepGammas : \E xs \in AnySeqs :
        /\ pc = "idle"
        /\ \E ys \in AnySeqs : begin_soft_dtw(xs, ys, g)

StepsSoftDtwDivergence ==
    \E g \in StepGammas : \E xs \in AnySeqs :
        /\ pc = "idle"
        /\ \E ys \in AnySeqs : begin_soft_dtw_divergence(xs, ys, g)

StepsSoftDtwCost ==
    \E g \in StepGammas : \E bld \in Builds : \E un \in AnyDims : \E um \in AnyDims :
        /\ pc = "idle"
        /\ \E cs \in FlatBufs : begin_soft_dtw_cost(cs, un, um, g, bld)

StepsSoftDtwDivergenceCost ==
    \E g \in StepGammas : \E bld \in Builds : \E un \in AnyDims : \E um \in AnyDims :
        /\ pc = "idle"
        /\ \E cxy \in FlatBufs : \E cxx \in FlatBufs : \E cyy \in FlatBufs :
              begin_soft_dtw_divergence_cost(cxy, cxx, cyy, un, um, g, bld)

\* the steps of a call that has begun
Run ==
    \/ enter_soft_dtw
    \/ fill_cell
    \/ fill_exit
    \/ enter_path
    \/ fwd_node
    \/ fwd_exit
    \/ bwd_node
    \/ bwd_exit

NextSteps ==
    \/ StepsPathValue
    \/ StepsPathMarginals
    \/ StepsSoftDtw
    \/ StepsSoftDtwDivergence
    \/ StepsSoftDtwCost
    \/ StepsSoftDtwDivergenceCost
    \/ Run
    \/ Return

\* A call that has begun goes on: the code runs on the caller's thread and
\* waits for nothing.  This is WF_vars(Run), written with what ENABLED <<Run>>_vars
\* comes to: in each of "enter", "fill", "fwd" and "bwd" exactly one step of Run
\* can be taken (the guards of the node and exit steps are complementary, and
\* every step changes pc or adds to writes), and none elsewhere.  SpecSteps has
\* no deadlock: TLC finds a successor for every state with pc in Running.
Running == {"enter", "fill", "fwd", "bwd"}

RunIsFair == []<>(pc \notin Running) \/ []<><<Run>>_vars

SpecSteps == Init /\ [][NextSteps]_vars /\ RunIsFair

(***************************************************************************)
(* The claims.                                                             *)
(***************************************************************************)
GammaIsValid == gamma.kind = "fin" /\ gamma.sgn > 0

\* C1: whenever gamma <= 0 or gamma is not finite, every operation returns
\* InvalidGamma carrying that gamma, whatever the other arguments are.
C1_InvalidGammaFirst ==
    (pc = "done" /\ ~GammaIsValid) => result = [tag |-> "InvalidGamma", gamma |-> gamma]

\* a call of soft_dtw_cost with a rejected gamma, n = 0 and a buffer that fits no shape
C1_Witness ==
    /\ pc = "done"
    /\ op = "soft_dtw_cost"
    /\ gamma = GammaNonFin("nan")
    /\ dtw_n = USize(0)
    /\ Len(cost) = 1
    /\ result.tag = "InvalidGamma"

\* C2: for valid gamma, n >= 1 and m >= 1, soft_dtw_cost returns InvalidCostShape
\* exactly when cost.len() differs from the product n * m, with len = cost.len(),
\* the given n and m, and expected = n * m.
C2_ShapeError ==
    (pc = "done" /\ op = "soft_dtw_cost" /\ GammaIsValid
        /\ dtw_n # USize(0) /\ dtw_m # USize(0))
    => IF usize_bytes(Len(cost), 16) # full_mul(dtw_n, dtw_m)
       THEN /\ result.tag = "InvalidCostShape"
            /\ result.len = Len(cost)
            /\ result.n = dtw_n
            /\ result.m = dtw_m
            /\ result.expected \o USize(0) = full_mul(dtw_n, dtw_m)
       ELSE result.tag # "InvalidCostShape"

\* C3: what the claim says validation reports for nn nodes and the edges es
C3_Bad(nn, es) ==
    {k \in 1..Len(es) : \/ es[k].from >= nn
                        \/ es[k].to >= nn
                        \/ es[k].from >= es[k].to
                        \/ es[k].cost.kind # "fin"}

C3_Report(nn, es) ==
    IF nn < 2 THEN [tag |-> "TooFewNodes", n |-> nn]
    ELSE IF C3_Bad(nn, es) = {} THEN [tag |-> "Ok"]
    ELSE LET k == CHOOSE k \in C3_Bad(nn, es) : \A j \in C3_Bad(nn, es) : k <= j
             e == es[k]
         IN IF e.from >= nn \/ e.to >= nn
            THEN [tag |-> "EdgeOutOfBounds", edge_idx |-> k - 1,
                  from |-> e.from, to |-> e.to, n |-> nn]
            ELSE IF e.from >= e.to
            THEN [tag |-> "NotDagOrder", edge_idx |-> k - 1, from |-> e.from, to |-> e.to]
            ELSE [tag |-> "EdgeOutOfBounds", edge_idx |-> k - 1,
                  from |-> e.from, to |-> e.to, n |-> nn]

\* C3: for valid gamma both shortest-path operations report TooFewNodes when n < 2,
\* and otherwise the first edge in list order that fails a check, with its index:
\* EdgeOutOfBounds for an endpoint >= n, otherwise NotDagOrder for from >= to,
\* otherwise EdgeOutOfBounds for a non-finite cost; with no such edge, no
\* validation error.
C3_FirstFailingEdge ==
    (pc = "done" /\ op \in PathOps /\ GammaIsValid)
    => IF C3_Report(n, edges).tag = "Ok" THEN result.tag \in {"Ok", "NoPath"}
       ELSE result = C3_Report(n, edges)

\* n = 3, a good edge, then 2 -> 1 (in range, from >= to), then an edge out of bounds
C3_Witness ==
    /\ pc = "done"
    /\ op = "soft_shortest_path_edge_marginals"
    /\ GammaIsValid
    /\ n = 3
    /\ Len(edges) = 2
    /\ edges[1] = Edge(0, 1, CostFin(1))
    /\ edges[2].from = 2 /\ edges[2].to = 1 /\ edges[2].cost.kind = "nan"
    /\ result = [tag |-> "NotDagOrder", edge_idx |-> 1, from |-> 2, to |-> 1]

(***************************************************************************)
(* Graph notions the path claims are stated with: reachability, the set of *)
(* source-to-sink paths (sequences of edge indices) and their weights.     *)
(***************************************************************************)
RECURSIVE ReachIter(_, _, _)
ReachIter(es, S, k) ==
    IF k = 0 THEN S
    ELSE ReachIter(es, S \cup {es[i].to : i \in {j \in 1..Len(es) : es[j].from \in S}}, k - 1)

\* the nodes with a directed path from node 0
ReachableFrom0(nn, es) == ReachIter(es, {0}, nn)

IsPath(q, nn, es) ==
    /\ es[q[1]].from = 0
    /\ es[q[Len(q)]].to = nn - 1
    /\ \A i \in 1..(Len(q) - 1) : es[q[i]].to = es[q[i + 1]].from

Paths(nn, es) == {q \in SeqsUpTo(1..Len(es), 1, nn - 1) : IsPath(q, nn, es)}

\* the total cost of a path as a real, k + h * 1.0e308 with no limit on h, held as
\* the weight exp(-k/gamma) and h
RECURSIVE PathTotal(_, _, _)
PathTotal(q, es, g) ==
    IF q = <<>> THEN ZERO
    ELSE LET c == cost_f64(es[Head(q)].cost, g)
             t == PathTotal(Tail(q), es, g)
         IN Fin(RatMul(Mant(c), Mant(t)), c.h + t.h)

RECURSIVE SumWeights(_, _, _)
SumWeights(P, es, g) ==
    IF P = {} THEN RZero
    ELSE LET q == CHOOSE q \in P : TRUE
         IN RatAdd(Mant(PathTotal(q, es, g)), SumWeights(P \ {q}, es, g))

\* the softmin over the total costs of the paths P: -gamma * ln of the sum of their
\* weights, in which only the paths of the least h count (the others are smaller by
\* a factor exp(-1.0e308/gamma), far below the resolution of f64); +infinity for no path
Softmin(P, es, g) ==
    IF P = {} THEN INFINITY
    ELSE LET hmin == CHOOSE hh \in {PathTotal(q, es, g).h : q \in P} :
                        \A q \in P : hh <= PathTotal(q, es, g).h
         IN Fin(SumWeights({q \in P : PathTotal(q, es, g).h = hmin}, es, g), hmin)

OnPath(k, q) == \E i \in 1..Len(q) : q[i] = k

\* the Gibbs probability that edge k lies on the path
GibbsProbability(k, nn, es, g) ==
    LET all == Softmin(Paths(nn, es), es, g)
        thru == Softmin({q \in Paths(nn, es) : OnPath(k, q)}, es, g)
    IN IF thru = INFINITY \/ thru.h > all.h THEN RZero
       ELSE RatDiv(Mant(thru), Mant(all))

\* C4: for a validated graph, dp[v] is +infinity exactly for the nodes without a
\* directed path from node 0, and soft_shortest_path_value returns NoPath exactly
\* when node n-1 has none; otherwise it returns a finite value.
C4_NoPathIffUnreachable ==
    (pc = "done" /\ op = "soft_shortest_path_value")
    => /\ DOMAIN dp = 0..(n - 1)
       /\ \A v \in 0..(n - 1) : (dp[v] = INFINITY) <=> (v \notin ReachableFrom0(n, edges))
       /\ (result = [tag |-> "NoPath"]) <=> ((n - 1) \notin ReachableFrom0(n, edges))
       /\ ((n - 1) \in ReachableFrom0(n, edges))
            => (result.tag = "Ok" /\ is_finite(result.value))

\* C5: on success, every edge (u -> v, c) with finite fwd[u] and bwd[v] has
\* fwd[u] + c + bwd[v] >= value, and every marginal lies in [0, 1].
C5_MarginalsAreProbabilities ==
    (pc = "done" /\ op = "soft_shortest_path_edge_marginals" /\ result.tag = "Ok")
    => \A k \in 1..Len(edges) :
          /\ (is_finite(fwd[edges[k].from]) /\ is_finite(bwd[edges[k].to]))
               => ~f64_lt(edge_sum(edges[k], gamma, fwd, bwd), result.value)
          /\ RatLe(RZero, result.p[k])
          /\ RatLe(result.p[k], ROne)

\* the marginals of the edges leaving node 0, in list order
SourceMarginals ==
    LET ks == SelectSeq([k \in 1..Len(edges) |-> k], LAMBDA k : edges[k].from = 0)
    IN [i \in 1..Len(ks) |-> result.p[ks[i]]]

\* C6: when soft_shortest_path_edge_marginals succeeds, the marginals of the edges
\* leaving node 0 sum to 1.
C6_SourceMarginalsSumToOne ==
    (pc = "done" /\ op = "soft_shortest_path_edge_marginals" /\ result.tag = "Ok")
    => /\ \A i \in 1..Len(SourceMarginals) : SourceMarginals[i] # P_INFINITY
       /\ RatSum(SourceMarginals) = ROne

\* C7: the value returned by both operations is the softmin over the total costs
\* of all directed paths from node 0 to node n-1.
C7_ValueIsSoftminOverPaths ==
    (pc = "done" /\ op \in PathOps /\ result.tag = "Ok")
    => result.value = Softmin(Paths(n, edges), edges, gamma)

\* C8: the marginal at position k is the Gibbs probability that input edge k lies
\* on the path: the weight of the paths through edge k over the weight of all paths.
C8_MarginalIsGibbsProbability ==
    (pc = "done" /\ op = "soft_shortest_path_edge_marginals" /\ result.tag = "Ok")
    => /\ Len(result.p) = Len(edges)
       /\ \A k \in 1..Len(edges) : result.p[k] = GibbsProbability(k, n, edges, gamma)

\* no edge of the call has a cost of magnitude 1.0e308
NoHugeCost == \A k \in 1..Len(edges) : edges[k].cost.h = 0

\* what C4 to C8 say, for the calls in which no f64 operation can leave the range
PathClaimsWithinRange ==
    (pc = "done" /\ NoHugeCost)
    => /\ C4_NoPathIffUnreachable
       /\ C5_MarginalsAreProbabilities
       /\ C6_SourceMarginalsSumToOne
       /\ C7_ValueIsSoftminOverPaths
       /\ C8_MarginalIsGibbsProbability

\* the row-major n * m buffer with cost[i*m + j] = (x[i] - y[j])^2
SqCost(xs, ys) ==
    [k \in 1..(Len(xs) * Len(ys)) |->
        LET i == (k - 1) \div Len(ys)
            j == (k - 1) % Len(ys)
        IN (xs[i + 1] - ys[j + 1]) * (xs[i + 1] - ys[j + 1])]

\* C9: for non-empty x, y and valid gamma, soft_dtw(x, y, gamma) returns what
\* soft_dtw_cost returns on the buffer of squared differences with n = |x|, m = |y|.
C9_ScalarMatchesCostForm ==
    (pc = "done" /\ op = "soft_dtw")
    => \A bld \in Builds :
          result = soft_dtw_cost(SqCost(x, y), USize(Len(x)), USize(Len(y)), gamma, bld)

\* the shape of the unit test: three elements against two, the squared differences
\* 0, 1 and 4 all present
C9_Witness ==
    /\ pc = "done"
    /\ op = "soft_dtw"
    /\ Len(x) = 3
    /\ Len(y) = 2
    /\ {SqCost(x, y)[k] : k \in 1..6} = {0, 1, 4}
    /\ result.tag = "Ok"
    /\ is_finite(result.value)

\* C10: for non-empty x, y and valid gamma, soft_dtw_divergence(x, y, gamma)
\* equals soft_dtw_divergence(y, x, gamma).
C10_DivergenceSymmetric ==
    (pc = "done" /\ op = "soft_dtw_divergence")
    => result = soft_dtw_divergence(y, x, gamma)

\* sequences of different lengths with a divergence that is not zero
C10_Witness ==
    /\ pc = "done"
    /\ op = "soft_dtw_divergence"
    /\ Len(x) = 3
    /\ Len(y) = 2
    /\ result.tag = "Ok"
    /\ result.value2 # ROne

\* C11: for every non-empty x and valid gamma, soft_dtw_divergence(x, x, gamma)
\* is 0: the weight of twice the divergence is 1.
C11_SelfDivergenceIsZero ==
    (pc = "done" /\ op = "soft_dtw_divergence" /\ x = y)
    => result = [tag |-> "Ok", value2 |-> ROne]

\* a sequence against itself whose soft_dtw value is not 0: three elements,
\* not all equal, so that xx differs from 0.5 * xx
C11_Witness ==
    /\ pc = "done"
    /\ op = "soft_dtw_divergence"
    /\ x = y
    /\ Len(x) = 3
    /\ x[1] # x[2]
    /\ soft_dtw(x, x, gamma).value # F64_ZERO
    /\ result.tag = "Ok"

\* C12: for non-empty x, y and valid gamma, soft_dtw_divergence(x, y, gamma)
\* is not negative: the weight of twice the divergence is at most 1.
C12_DivergenceNonNegative ==
    (pc = "done" /\ op = "soft_dtw_divergence")
    => /\ result.tag = "Ok"
       /\ is_finite(result.value2)
       /\ RatLe(result.value2, ROne)

\* sequences of different lengths whose self terms are not 0 and whose
\* divergence is positive
C12_Witness ==
    /\ pc = "done"
    /\ op = "soft_dtw_divergence"
    /\ Len(x) = 2
    /\ Len(y) = 3
    /\ soft_dtw(x, x, gamma).value # F64_ZERO
    /\ soft_dtw(y, y, gamma).value # F64_ZERO
    /\ result.tag = "Ok"
    /\ RatLt(result.value2, ROne)

\* the classical DTW value with squared distance: the recurrence of soft_dtw
\* with the hard minimum.  A cell is the set holding its value, or the empty
\* set for +infinity on the boundary.
SetMin(S) == CHOOSE v \in S : \A u \in S : v <= u

RECURSIVE classical_dtw_cell(_, _, _, _)
classical_dtw_cell(xs, ys, i, j) ==
    IF i = 0 /\ j = 0 THEN {0}
    ELSE IF i = 0 \/ j = 0 THEN {}
    ELSE LET S == classical_dtw_cell(xs, ys, i - 1, j)
                  \cup classical_dtw_cell(xs, ys, i, j - 1)
                  \cup classical_dtw_cell(xs, ys, i - 1, j - 1)
         IN IF S = {} THEN {}
            ELSE {(xs[i] - ys[j]) * (xs[i] - ys[j]) + SetMin(S)}

classical_dtw(xs, ys) == SetMin(classical_dtw_cell(xs, ys, Len(xs), Len(ys)))

\* exp(-((|x| + |y|) * gamma * ln 3) / gamma) = 3^-(|x| + |y|), for every gamma
SlackWeight(xs, ys) == Rat(1, Pow(3, Len(xs) + Len(ys)))

\* the weight of the smallest of three values: the largest of their weights
MinWeight(a, b, c) == f64_max(f64_max(a, b), c)

\* the interior cells of the table of soft_dtw(x, y)
DtwCells == (1..Len(x)) \X (1..Len(y))

\* C13: for non-empty x, y and valid gamma, soft_dtw(x, y, gamma) is at most
\* the classical DTW value and at least that value less (|x| + |y|) * gamma * ln 3,
\* and in every cell the softmin of the three neighbours lies between their
\* minimum less gamma * ln 3 and their minimum.
C13_SoftDtwWithinClassicalBound ==
    (pc = "done" /\ op = "soft_dtw")
    => LET hard == ExpNeg(classical_dtw(x, y), gamma)
           w == Len(y) + 1
       IN /\ result.tag = "Ok"
          /\ RatLe(hard, result.value)
          /\ RatLe(RatMul(result.value, SlackWeight(x, y)), hard)
          /\ \A ij \in DtwCells :
                LET a == r[(ij[1] - 1) * w + ij[2]]
                    b == r[ij[1] * w + (ij[2] - 1)]
                    c == r[(ij[1] - 1) * w + (ij[2] - 1)]
                    s == softmin3(gamma, a, b, c)
                IN /\ RatLe(MinWeight(a, b, c), s)
                   /\ RatLe(s, RatMul(Rat(3, 1), MinWeight(a, b, c)))

\* three elements against three with a classical DTW value of 1, where the
\* soft value is strictly below the classical one
C13_Witness ==
    /\ pc = "done"
    /\ op = "soft_dtw"
    /\ Len(x) = 3
    /\ Len(y) = 3
    /\ classical_dtw(x, y) = 1
    /\ result.tag = "Ok"
    /\ RatLt(ExpNeg(classical_dtw(x, y), gamma), result.value)

\* what one path operation returns, compared with what the other returns on
\* the same input: the same error, or the same value with one marginal per edge
SameOutcome(val, marg) ==
    IF val.tag = "Ok"
    THEN /\ marg.tag = "Ok"
         /\ marg.value = val.value
         /\ Len(marg.p) = Len(edges)
    ELSE marg = val

\* C14: on every input soft_shortest_path_value and
\* soft_shortest_path_edge_marginals return the same error (variant and
\* payload), or else the same value, with a marginal vector of length
\* edges.len().
C14_ValueAndMarginalsAgree ==
    /\ (pc = "done" /\ op = "soft_shortest_path_value")
       => SameOutcome(result, soft_shortest_path_edge_marginals(n, edges, gamma))
    /\ (pc = "done" /\ op = "soft_shortest_path_edge_marginals")
       => SameOutcome(soft_shortest_path_value(n, edges, gamma), result)

\* a call of the marginals on a path of two edges through a middle node,
\* where the forward pass adds a potential to a cost
C14_Witness ==
    /\ pc = "done"
    /\ op = "soft_shortest_path_edge_marginals"
    /\ n = 3
    /\ Len(edges) = 2
    /\ edges[1].from = 0 /\ edges[1].to = 1
    /\ edges[2].from = 1 /\ edges[2].to = 2
    /\ result.tag = "Ok"
    /\ Len(result.p) = 2

\* the index r[i * w + j] of the k-th cell of rows 1..n and columns 1..m, rows
\* first and columns within a row
RowMajorIndex(k, mm) == (((k - 1) \div mm) + 1) * (mm + 1) + (((k - 1) % mm) + 1)

Written(k) == \E q \in 1..Len(writes) : writes[q] = k

\* the table as the whole call leaves it
final_table ==
    IF op = "soft_dtw" THEN soft_dtw_run(x, y, gamma).r
    ELSE soft_dtw_cost_run(cost, dtw_n, dtw_m, gamma, build).r

\* C15: in soft_dtw and soft_dtw_cost the table starts with r[0] = 0 and +inf
\* elsewhere; row 0 and column 0 are never written; the cells of rows 1..n,
\* columns 1..m are written once each, rows first and columns within a row;
\* when a cell is written its three neighbours hold their final values; the
\* value returned is r[n * w + m] after the last write.
C15_FillOrder ==
    (op \in {"soft_dtw", "soft_dtw_cost"}
        /\ (pc = "fill" \/ (pc = "done" /\ result.tag = "Ok")))
    => LET nn == sub_n
           mm == sub_m
           w == mm + 1
           final == final_table
       IN /\ DOMAIN r = 0..((nn + 1) * w - 1)
          /\ \A k \in DOMAIN r :
                ~Written(k) => r[k] = (IF k = 0 THEN F64_ZERO ELSE F64_INFINITY)
          /\ \A i \in 0..nn : ~Written(i * w)
          /\ \A j \in 0..mm : ~Written(j)
          /\ Len(writes) <= nn * mm
          /\ \A k \in 1..Len(writes) : writes[k] = RowMajorIndex(k, mm)
          /\ \A k \in 1..Len(writes) : \A q \in 1..Len(writes) :
                writes[k] = writes[q] => k = q
          /\ \A k \in DOMAIN r : Written(k) => r[k] = final[k]
          /\ (pc = "fill" /\ cur_i <= nn)
             => /\ cur_i * w + cur_j = RowMajorIndex(Len(writes) + 1, mm)
                /\ \A k \in {(cur_i - 1) * w + cur_j,
                               cur_i * w + (cur_j - 1),
                               (cur_i - 1) * w + (cur_j - 1)} :
                      /\ r[k] = final[k]
                      /\ Written(k) \/ k \div w = 0 \/ k % w = 0
          /\ (pc = "fill" /\ cur_i > nn) => Len(writes) = nn * mm
          /\ pc = "done"
             => /\ Len(writes) = nn * mm
                /\ r = final
                /\ result.value = r[nn * w + mm]

\* soft_dtw on two elements against three, about to write the first cell of
\* the second row: the three cells of the first row are written
C15_Witness ==
    /\ pc = "fill"
    /\ op = "soft_dtw"
    /\ Len(x) = 2
    /\ Len(y) = 3
    /\ cur_i = 2
    /\ cur_j = 1
    /\ writes = <<5, 6, 7>>
    /\ is_finite(r[7])

ErrorTags ==
    {"InvalidGamma", "EmptyInput", "InvalidCostShape", "TooFewNodes", "EdgeOutOfBounds",
     "NotDagOrder", "NoPath"}

\* the errors of the checks made on entry
EntryErrorTags ==
    {"InvalidGamma", "EmptyInput", "TooFewNodes", "EdgeOutOfBounds", "NotDagOrder"}

FullWork ==
    LET nn == usize_nat(dtw_n)
        mm == usize_nat(dtw_m)
    IN IF op = "soft_shortest_path_value" THEN n - 1
       ELSE IF op = "soft_shortest_path_edge_marginals" THEN 2 * (n - 1)
       ELSE IF op = "soft_dtw" THEN Len(x) * Len(y)
       ELSE IF op = "soft_dtw_divergence"
       THEN Len(x) * Len(y) + Len(x) * Len(x) + Len(y) * Len(y)
       ELSE IF op = "soft_dtw_cost" THEN nn * mm
       ELSE nn * mm + nn * nn + mm * mm

\* the cells written by the sub-calls of soft_dtw_divergence_cost that came
\* before the one it is in
EarlierSubCalls ==
    LET nn == usize_nat(dtw_n)
        mm == usize_nat(dtw_m)
    IN IF phase = "xy" THEN 0
       ELSE IF phase = "xx" THEN nn * mm
       ELSE nn * mm + nn * nn

C16_WorkAtReturn ==
    pc = "done"
    => /\ result.tag \in ErrorTags \cup {"Ok", "Panic"}
       /\ result.tag \in EntryErrorTags => writes = <<>>
       /\ result.tag = "InvalidCostShape"
          => /\ op \in CostOps
             /\ op = "soft_dtw_cost" => writes = <<>>
             /\ op = "soft_dtw_divergence_cost" => Len(writes) = EarlierSubCalls
       /\ result.tag = "NoPath"
          => /\ op \in PathOps
             /\ writes = [k \in 1..(n - 1) |-> k]
       /\ result.tag = "Ok" => Len(writes) = FullWork
       /\ result.tag = "Panic" => op \in CostOps

====
